---- MODULE Spec2Model ----
(***************************************************************************)
(* PTS visual helpers: plotMediaDensityCuts (visual/plotdensitycuts.py)    *)
(* and plotTemperatureCuts (visual/plottemperaturecuts.py).                *)
(*                                                                         *)
(* One behaviour is one call of one of the two functions.  The state is    *)
(* the call's arguments, the function's local variables at the end of a    *)
(* loop iteration, and what the call did to the process around it: the     *)
(* number of probe.outFilePaths() lookups, of pyplot figures created,      *)
(* still open and saved, and the probes a figure was drawn for.            *)
(*                                                                         *)
(* Density values are fixed-point integers: every pixel is a multiple of   *)
(* Scale = 10^MaxDecades, so that vmax / 10**decades is exact.             *)
(***************************************************************************)
EXTENDS Integers, Sequences, FiniteSets, TLC

\* ---------------------------------------------------------------- bounds
MaxProbes   == 2   \* probes in simulation.probes()
MaxDecades  == 1   \* the decades argument ranges over 0..MaxDecades
MaxPaths    == 1   \* paths probe.outFilePaths() returns for a density pattern
MaxCutFiles == 4   \* files matching "{medium}_T_*.fits" for one probe
FrameLen    == 1   \* pixels in a loaded frame

\* ------------------------------------------------------- program constants
DefaultDecades   == 5
DefaultFigWidth  == 18
DefaultFigHeight == 6
CutPanelWidth    == 8
CutPanelHeight   == 6

Media == <<"dust", "elec", "gas">>
Cuts  == <<"xy", "xz", "yz">>

RECURSIVE Pow10(_)
Pow10(n) == IF n = 0 THEN 1 ELSE 10 * Pow10(n - 1)

Scale == Pow10(MaxDecades)

\* ------------------------------------------------------------ type names
\* A probe type name as the characters of the Python string, for the
\* substring tests of plotTemperatureCuts.
TypeChars(t) ==
  CASE t = "DefaultMediaDensityCutsProbe" ->
         <<"D","e","f","a","u","l","t","M","e","d","i","a","D","e","n","s","i","t","y","C","u","t","s","P","r","o","b","e">>
    [] t = "PlanarMediaDensityCutsProbe" ->
         <<"P","l","a","n","a","r","M","e","d","i","a","D","e","n","s","i","t","y","C","u","t","s","P","r","o","b","e">>
    [] t = "DefaultDustTemperatureCutsProbe" ->
         <<"D","e","f","a","u","l","t","D","u","s","t","T","e","m","p","e","r","a","t","u","r","e","C","u","t","s","P","r","o","b","e">>
    [] t = "DefaultGasTemperatureCutsProbe" ->
         <<"D","e","f","a","u","l","t","G","a","s","T","e","m","p","e","r","a","t","u","r","e","C","u","t","s","P","r","o","b","e">>
    [] t = "DefaultElectronTemperatureCutsProbe" ->
         <<"D","e","f","a","u","l","t","E","l","e","c","t","r","o","n","T","e","m","p","e","r","a","t","u","r","e","C","u","t","s","P","r","o","b","e">>
    [] t = "PlanarDustTemperatureCutsProbe" ->
         <<"P","l","a","n","a","r","D","u","s","t","T","e","m","p","e","r","a","t","u","r","e","C","u","t","s","P","r","o","b","e">>
    [] t = "PlanarGasTemperatureCutsProbe" ->
         <<"P","l","a","n","a","r","G","a","s","T","e","m","p","e","r","a","t","u","r","e","C","u","t","s","P","r","o","b","e">>
    [] t = "PlanarElectronTemperatureCutsProbe" ->
         <<"P","l","a","n","a","r","E","l","e","c","t","r","o","n","T","e","m","p","e","r","a","t","u","r","e","C","u","t","s","P","r","o","b","e">>

\* Python's `sub in s` on strings
Contains(sub, s) ==
  \E k \in 0..(Len(s) - Len(sub)) : SubSeq(s, k + 1, k + Len(sub)) = sub

\* the tuple of plotdensitycuts.py:41
DensityProbeTypes == {"DefaultMediaDensityCutsProbe", "PlanarMediaDensityCutsProbe"}

\* the list comprehension of plottemperaturecuts.py:38-39
probetypes ==
  { style \o medium \o <<"T","e","m","p","e","r","a","t","u","r","e","C","u","t","s","P","r","o","b","e">> :
      style \in { <<"D","e","f","a","u","l","t">>, <<"P","l","a","n","a","r">> },
      medium \in { <<"D","u","s","t">>, <<"G","a","s">>, <<"E","l","e","c","t","r","o","n">> } }

IsDensityProbe_all(t) == TRUE
IsDensityProbe(t) == t \in DensityProbeTypes

IsTemperatureProbe(t) == TypeChars(t) \in probetypes

\* plottemperaturecuts.py:45-47
MediumOfType_swapped(t) ==
  LET m0 == "dust"
      m1 == IF Contains(<<"G","a","s">>, TypeChars(t)) THEN "elec" ELSE m0
  IN  IF Contains(<<"E","l","e","c","t","r","o","n">>, TypeChars(t)) THEN "gas" ELSE m1
MediumOfType(t) ==
  LET m0 == "dust"
      m1 == IF Contains(<<"G","a","s">>, TypeChars(t)) THEN "gas" ELSE m0
  IN  IF Contains(<<"E","l","e","c","t","r","o","n">>, TypeChars(t)) THEN "elec" ELSE m1

\* --------------------------------------------------------- the simulation
ProbeNames == <<"p1", "p2", "p3", "p4">>

TemperatureTypeNames ==
  { "DefaultDustTemperatureCutsProbe", "DefaultGasTemperatureCutsProbe",
    "DefaultElectronTemperatureCutsProbe", "PlanarDustTemperatureCutsProbe",
    "PlanarGasTemperatureCutsProbe", "PlanarElectronTemperatureCutsProbe" }

\* the probe types a simulation handed to fn may hold: the types fn plots
\* and one type of the other function
SimTypes(f) ==
  IF f = "density"
    THEN DensityProbeTypes \cup {"PlanarDustTemperatureCutsProbe"}
    ELSE TemperatureTypeNames \cup {"PlanarMediaDensityCutsProbe"}

\* simulation.probes(): probe k is named ProbeNames[k]; ncuts is the number
\* of "{medium}_T_*.fits" files the probe left in the output directory
Simulations(f, cutCounts) ==
  UNION { { s \in [1..n -> [name : {ProbeNames[k] : k \in 1..n},
                            type : SimTypes(f), ncuts : cutCounts]] :
              \A k \in 1..n : s[k].name = ProbeNames[k] } : n \in 0..MaxProbes }

\* probe.outFilePaths("{medium}_T_*.fits"): the stems of the matching files
CutTag(k) == IF k <= Len(Cuts) THEN Cuts[k] ELSE "bak"
OutFilePaths(p, med) ==
  [k \in 1..p.ncuts |-> <<p.name, med, "T", CutTag(k)>>]

\* Python's seq filter, keeping order
RECURSIVE Filter(_, _)
Filter(s, fnname) ==
  IF s = <<>> THEN <<>>
  ELSE LET rest == Filter(Tail(s), fnname)
           keep == IF fnname = "density" THEN IsDensityProbe(Head(s).type)
                                          ELSE IsTemperatureProbe(Head(s).type)
       IN  IF keep THEN <<Head(s)>> \o rest ELSE rest

\* ------------------------------------------------------------- the frames
PixelValues == {-(Scale * Scale), 0, Scale, Scale * Scale}
Frames == [1..FrameLen -> PixelValues]
FramePairs == Frames \X Frames
Flat(v) == [j \in 1..FrameLen |-> v]
\* the frames of the calls with the default decades: multiples of 10^DefaultDecades
SampleFramePairs ==
  { <<Flat(Pow10(DefaultDecades) * 100), Flat(Pow10(DefaultDecades))>>, <<Flat(0), Flat(0)>> }

RECURSIVE SeqMax(_)
SeqMax(s) ==
  IF Len(s) = 1 THEN s[1]
  ELSE LET m == SeqMax(Tail(s)) IN IF s[1] > m THEN s[1] ELSE m

\* plotdensitycuts.py:59
VMax(tf, gf) == IF SeqMax(tf) > SeqMax(gf) THEN SeqMax(tf) ELSE SeqMax(gf)

\* plotdensitycuts.py:60
VMin_plusone(vmx, dec) == vmx \div Pow10(dec + 1)
VMin(vmx, dec) == vmx \div Pow10(dec)

\* plotdensitycuts.py:61-62
Clip(frame, vmn) ==
  [j \in DOMAIN frame |-> IF frame[j] < vmn THEN vmn ELSE frame[j]]

\* plotdensitycuts.py:68-71
Normalizer_nonneg(vmn, vmx) ==
  IF vmx >= 0 THEN [kind |-> "LogNorm", vmin |-> vmn, vmax |-> vmx]
              ELSE [kind |-> "Normalize", vmin |-> vmn, vmax |-> vmx]
Normalizer(vmn, vmx) ==
  IF vmx > 0 THEN [kind |-> "LogNorm", vmin |-> vmn, vmax |-> vmx]
             ELSE [kind |-> "Normalize", vmin |-> vmn, vmax |-> vmx]

\* plotdensitycuts.py:51
ExpectedCount_atleast(nt, ng) == nt >= 1 /\ ng >= 0
ExpectedCount(nt, ng) == nt = 1 /\ ng = 1

\* plottemperaturecuts.py:53
ExpectedCuts(n) == n \in {1, 2, 3}

\* plotdensitycuts.py:92, "{}_{}_{}.pdf".format(probe.name(), medium, cut)
DensitySaveName_swapped(name, medium, cut) == <<name, "_", cut, "_", medium, ".pdf">>
DensitySaveName(name, medium, cut) == <<name, "_", medium, "_", cut, ".pdf">>

\* plottemperaturecuts.py:83, "{}_{}_T.pdf".format(probe.name(), medium)
TemperatureSaveName(name, medium) == <<name, "_", medium, "_", "T", ".pdf">>

\* plottemperaturecuts.py:51, "{}_T_*.fits".format(medium)
TemperaturePattern(medium) == <<medium, "_", "T", "_", "*", ".fits">>

\* plt.close() after plt.savefig(): the current figure is closed
AfterClose_leftopen(open) == open
AfterClose(open) == open - 1

\* ------------------------------------------------------------------ state
VARIABLES
  fn,           \* "density" or "temperature": the function called
  simulation,   \* simulation.probes()
  decades,      \* the decades argument (density)
  interactive,  \* ut.interactive(interactive)
  pc,           \* "start", "loop", "done"
  probes,       \* the filtered probe list
  pi, mi, ci,   \* position of the loops: probe, medium, cut
  figSize,      \* the figSize argument and local; <<>> is None
  probe,        \* <<>> or <<the probe of the last iteration>>
  medium, cut,  \* locals of the last iteration
  pattern,      \* the last temperature file pattern
  nT, nG,       \* len(tPaths), len(gPaths)
  numcuts, cuts,
  tLoaded, gLoaded,   \* the frames as loaded from the files
  tFrame, gFrame,     \* the frames after clipping
  vmax, vmin,
  fig,          \* <<>> or <<the figure created by the last iteration>>
  saveFilePath, \* <<>> or the name the last iteration saved to
  nLookups, nCreated, nOpen, nSaved,
  plotted       \* names of the probes a figure was created for

args == <<fn, simulation, decades, interactive>>
locals == <<probe, medium, cut, pattern, nT, nG, numcuts, cuts, tLoaded, gLoaded,
            tFrame, gFrame, vmax, vmin, fig, saveFilePath>>
effects == <<nLookups, nCreated, nOpen, nSaved, plotted>>
vars == <<args, pc, probes, pi, mi, ci, figSize, locals, effects>>

InitRest ==
  /\ pc = "start" /\ probes = <<>> /\ pi = 1 /\ mi = 1 /\ ci = 1
  /\ probe = <<>> /\ medium = "" /\ cut = "" /\ pattern = <<>> /\ nT = 0 /\ nG = 0
  /\ numcuts = 0 /\ cuts = <<>>
  /\ tLoaded = <<>> /\ gLoaded = <<>> /\ tFrame = <<>> /\ gFrame = <<>>
  /\ vmax = 0 /\ vmin = 0 /\ fig = <<>> /\ saveFilePath = <<>>
  /\ nLookups = 0 /\ nCreated = 0 /\ nOpen = 0 /\ nSaved = 0 /\ plotted = {}

InitDensity ==
  /\ fn = "density"
  /\ simulation \in Simulations("density", {0})
  /\ decades = DefaultDecades
  /\ interactive \in BOOLEAN
  /\ figSize = <<DefaultFigWidth, DefaultFigHeight>>
  /\ InitRest

InitTemperature ==
  /\ fn = "temperature"
  /\ simulation \in Simulations("temperature", 0..MaxCutFiles)
  /\ decades = 0
  /\ interactive \in BOOLEAN
  /\ figSize = <<>>
  /\ InitRest

Init == InitDensity \/ InitTemperature

\* plotdensitycuts.py:40-41, plottemperaturecuts.py:38-40
FindProbes ==
  /\ pc = "start"
  /\ probes' = Filter(simulation, fn)
  /\ pc' = "loop"
  /\ UNCHANGED <<args, pi, mi, ci, figSize, locals, effects>>

\* one pass through the body of the innermost loop, plotdensitycuts.py:46-96
DensityIteration(pathCounts, framePairs) ==
  /\ pc = "loop" /\ fn = "density" /\ pi <= Len(probes)
  /\ probe' = <<probes[pi]>>
  /\ LET p == probes[pi] IN
     \E nt \in pathCounts, ng \in pathCounts :
     \E pair \in IF ExpectedCount(nt, ng) THEN framePairs ELSE {<<<<>>, <<>>>>} :
       /\ medium' = Media[mi] /\ cut' = Cuts[ci]
       /\ nT' = nt /\ nG' = ng
       /\ nLookups' = nLookups + 2
       /\ IF ExpectedCount(nt, ng)
            THEN LET vmx  == VMax(pair[1], pair[2])
                     vmn  == VMin(vmx, decades)
                     norm == Normalizer(vmn, vmx)
                 IN  /\ tLoaded' = pair[1] /\ gLoaded' = pair[2]
                     /\ vmax' = vmx /\ vmin' = vmn
                     /\ tFrame' = Clip(pair[1], vmn)
                     /\ gFrame' = Clip(pair[2], vmn)
                     /\ fig' = << [size |-> figSize, ncols |-> 2,
                                   norms |-> <<norm, norm>>] >>
                     /\ nCreated' = nCreated + 1
                     /\ plotted' = plotted \cup {p.name}
                     /\ IF ~interactive
                          THEN /\ saveFilePath' = DensitySaveName(p.name, Media[mi], Cuts[ci])
                               /\ nSaved' = nSaved + 1
                               /\ nOpen' = AfterClose(nOpen + 1)
                          ELSE /\ saveFilePath' = <<>>
                               /\ nSaved' = nSaved
                               /\ nOpen' = nOpen + 1
            ELSE /\ tLoaded' = <<>> /\ gLoaded' = <<>>
                 /\ tFrame' = <<>> /\ gFrame' = <<>>
                 /\ vmax' = 0 /\ vmin' = 0 /\ fig' = <<>> /\ saveFilePath' = <<>>
                 /\ UNCHANGED <<nCreated, nSaved, nOpen, plotted>>
  /\ IF ci < Len(Cuts)
       THEN ci' = ci + 1 /\ UNCHANGED <<mi, pi>>
       ELSE /\ ci' = 1
            /\ IF mi < Len(Media) THEN mi' = mi + 1 /\ UNCHANGED pi
                                  ELSE mi' = 1 /\ pi' = pi + 1
  /\ UNCHANGED <<args, pc, probes, figSize, pattern, numcuts, cuts>>

DensityStep == DensityIteration(0..MaxPaths, SampleFramePairs)

DensityScan == DensityIteration({1}, FramePairs)

\* one pass through the body of the probe loop, plottemperaturecuts.py:43-88
TemperatureStep ==
  /\ pc = "loop" /\ fn = "temperature" /\ pi <= Len(probes)
  /\ probe' = <<probes[pi]>>
  /\ LET p     == probes[pi]
         med   == MediumOfType(p.type)
         paths == OutFilePaths(p, med)
         n     == Len(paths)
         size  == IF figSize = <<>> THEN <<CutPanelWidth * n, CutPanelHeight>> ELSE figSize
     IN  /\ medium' = med
         /\ pattern' = TemperaturePattern(med)
         /\ nLookups' = nLookups + 1
         /\ numcuts' = n
         /\ IF ~ExpectedCuts(n)
              THEN /\ pc' = "done"
                   /\ cuts' = <<>> /\ fig' = <<>> /\ saveFilePath' = <<>>
                   /\ UNCHANGED <<pi, figSize, nCreated, nOpen, nSaved, plotted>>
              ELSE /\ cuts' = [k \in 1..n |-> paths[k][Len(paths[k])]]
                   /\ figSize' = size
                   /\ fig' = << [size |-> size, ncols |-> n, norms |-> <<>>] >>
                   /\ nCreated' = nCreated + 1
                   /\ plotted' = plotted \cup {p.name}
                   /\ IF ~interactive
                        THEN /\ saveFilePath' = TemperatureSaveName(p.name, med)
                             /\ nSaved' = nSaved + 1
                             /\ nOpen' = AfterClose(nOpen + 1)
                        ELSE /\ saveFilePath' = <<>>
                             /\ nSaved' = nSaved
                             /\ nOpen' = nOpen + 1
                   /\ pi' = pi + 1
                   /\ pc' = pc
  /\ UNCHANGED <<args, probes, mi, ci, cut, nT, nG, tLoaded, gLoaded,
                 tFrame, gFrame, vmax, vmin>>

\* the loop over the probes is exhausted: the function returns
Return ==
  /\ pc = "loop" /\ pi > Len(probes)
  /\ pc' = "done"
  /\ UNCHANGED <<args, probes, pi, mi, ci, figSize, locals, effects>>

Next == FindProbes \/ DensityStep \/ TemperatureStep \/ Return

Spec == Init /\ [][Next]_vars

\* plotMediaDensityCuts(simulation, decades) on one density probe whose files
\* are all present, over every pair of frames and every decades
InitScan ==
  /\ fn = "density"
  /\ simulation \in { s \in Simulations("density", {0}) :
                        Len(s) = 1 /\ s[1].type = "DefaultMediaDensityCutsProbe" }
  /\ decades \in 0..MaxDecades
  /\ interactive = FALSE
  /\ figSize = <<DefaultFigWidth, DefaultFigHeight>>
  /\ InitRest

NextScan == FindProbes \/ DensityScan \/ Return

SpecScan == InitScan /\ [][NextScan]_vars

\* ------------------------------------------------------------- the claims
\* the probe types each function is documented to plot
ClaimedTypes ==
  IF fn = "density"
    THEN {"DefaultMediaDensityCutsProbe", "PlanarMediaDensityCutsProbe"}
    ELSE {"DefaultDustTemperatureCutsProbe", "DefaultGasTemperatureCutsProbe",
          "DefaultElectronTemperatureCutsProbe", "PlanarDustTemperatureCutsProbe",
          "PlanarGasTemperatureCutsProbe", "PlanarElectronTemperatureCutsProbe"}

\* the step looked up the files of a cut (density) or of a probe (temperature)
\* and did not find them in the expected count
MissedLookup ==
  /\ nLookups' > nLookups
  /\ \/ fn = "density" /\ ~(nT' = 1 /\ nG' = 1)
     \/ fn = "temperature" /\ numcuts' \notin {1, 2, 3}

NoFigureInStep == nCreated' = nCreated /\ nSaved' = nSaved /\ nOpen' = nOpen

\* C1 as stated: when the expected files are not found in the expected count,
\* the function returns and the call has saved no figure.
C1_ReturnsWithoutAnyOutput ==
  [][MissedLookup => (pc' = "done" /\ nSaved' = 0)]_vars

\* C1 amended: a lookup that does not find the expected count creates and saves
\* no figure for that cut (density, which goes on with the next cut) or for
\* that probe (temperature, which returns at once); figures saved earlier in
\* the call remain.
C1_MissedLookupDrawsNothing ==
  [][MissedLookup =>
       /\ NoFigureInStep
       /\ fn = "temperature" => pc' = "done"
       /\ fn = "density" => pc' = "loop"]_vars

C1_Witness ==
  /\ fn = "density" /\ nLookups > 0 /\ ~(nT = 1 /\ nG = 1)
  /\ nSaved > 0 /\ fig = <<>>

NoMatchingProbe ==
  \A k \in 1..Len(simulation) : simulation[k].type \notin ClaimedTypes

\* C2: with no probe of a matching type in the simulation, no output file is
\* looked up, no figure is created and no file is written.
C2_NoMatchingProbeNoEffect ==
  NoMatchingProbe =>
    /\ nLookups = 0 /\ nCreated = 0 /\ nOpen = 0 /\ nSaved = 0
    /\ plotted = {} /\ fig = <<>> /\ saveFilePath = <<>>

C2_Witness ==
  /\ pc = "done" /\ NoMatchingProbe /\ Len(simulation) = MaxProbes /\ ~interactive

\* C3: in interactive mode nothing is saved and every figure created is open;
\* otherwise every figure created is saved once and closed before the next one,
\* so none is open between iterations or at return.
C3_InteractiveLeavesOpenElseSavedAndClosed ==
  /\ interactive => (nSaved = 0 /\ saveFilePath = <<>> /\ nOpen = nCreated)
  /\ ~interactive => (nSaved = nCreated /\ nOpen = 0)
  /\ ~interactive /\ fig # <<>> => saveFilePath # <<>>

C3_Witness == pc = "done" /\ ~interactive /\ nCreated >= 2 /\ nSaved >= 2

LoadedMax ==
  CHOOSE v \in {tLoaded[j] : j \in DOMAIN tLoaded} \cup {gLoaded[j] : j \in DOMAIN gLoaded} :
    /\ \A j \in DOMAIN tLoaded : tLoaded[j] <= v
    /\ \A j \in DOMAIN gLoaded : gLoaded[j] <= v

ClippedAt(loaded, frame, floor) ==
  /\ DOMAIN frame = DOMAIN loaded
  /\ \A j \in DOMAIN loaded :
       /\ frame[j] >= floor
       /\ loaded[j] >= floor => frame[j] = loaded[j]

\* C5: for every plotted cut, vmin = vmax / 10^decades with vmax the larger of
\* the two frame maxima; after clipping no element is below vmin and every
\* element that was at or above vmin is unchanged.
C5_FloorAndClip ==
  fig # <<>> =>
    /\ vmax = LoadedMax
    /\ vmin * Pow10(decades) = vmax
    /\ ClippedAt(tLoaded, tFrame, vmin)
    /\ ClippedAt(gLoaded, gFrame, vmin)

C5_Witness ==
  /\ fig # <<>> /\ decades >= 1 /\ vmax > 0
  /\ \E j \in DOMAIN gLoaded : gLoaded[j] < vmin /\ gFrame[j] = vmin
  /\ \E j \in DOMAIN tLoaded : tLoaded[j] > vmin /\ tFrame[j] = tLoaded[j]

\* C6: the scale is logarithmic exactly when vmax > 0, linear when vmax <= 0,
\* and both panels use the same normalizer.
C6_LogIffPositiveMax ==
  fig # <<>> =>
    /\ fig[1].norms[1].kind = "LogNorm" <=> LoadedMax > 0
    /\ LoadedMax <= 0 => fig[1].norms[1].kind = "Normalize"
    /\ fig[1].norms[2] = fig[1].norms[1]

C6_Witness ==
  /\ fig # <<>> /\ LoadedMax = 0 /\ fig[1].norms[1].kind = "Normalize"

\* C7: when plotTemperatureCuts has returned, every matching probe with one,
\* two or three cut files has its figure, whatever the other probes hold.
C7_EveryGoodProbePlotted ==
  (fn = "temperature" /\ pc = "done") =>
    \A k \in 1..Len(simulation) :
      (simulation[k].type \in ClaimedTypes /\ simulation[k].ncuts \in {1, 2, 3})
        => simulation[k].name \in plotted

\* C8: called without figSize, every figure of plotTemperatureCuts has size
\* (8*numcuts, 6) for the number of cut files of its own probe.
C8_FigureSizedByOwnCuts ==
  (fn = "temperature" /\ fig # <<>>) =>
    fig[1].size = <<8 * probe[1].ncuts, 6>>

InRange(frame, lo, hi) == \A j \in DOMAIN frame : lo <= frame[j] /\ frame[j] <= hi

\* C9: for every plotted cut and decades >= 0 the normalizer's range is well
\* formed, vmin <= vmax, and the clipped frames lie within [vmin, vmax].
C9_RangeWellFormed ==
  fig # <<>> =>
    /\ fig[1].norms[1].vmin <= fig[1].norms[1].vmax
    /\ InRange(tFrame, fig[1].norms[1].vmin, fig[1].norms[1].vmax)
    /\ InRange(gFrame, fig[1].norms[1].vmin, fig[1].norms[1].vmax)

\* the medium indicator documented for each temperature probe type
ClaimedMedium(t) ==
  CASE t \in {"DefaultDustTemperatureCutsProbe", "PlanarDustTemperatureCutsProbe"} -> "dust"
    [] t \in {"DefaultGasTemperatureCutsProbe", "PlanarGasTemperatureCutsProbe"} -> "gas"
    [] t \in {"DefaultElectronTemperatureCutsProbe", "PlanarElectronTemperatureCutsProbe"} -> "elec"

\* C10: each of the six temperature probe types has one medium indicator
\* (Dust -> dust, Gas -> gas, Electron -> elec), used both in the input
\* pattern {medium}_T_*.fits and in the output file name.
C10_OneMediumPerType ==
  (fn = "temperature" /\ probe # <<>>) =>
    /\ probe[1].type \in ClaimedTypes
    /\ medium = ClaimedMedium(probe[1].type)
    /\ pattern = <<ClaimedMedium(probe[1].type), "_", "T", "_", "*", ".fits">>
    /\ saveFilePath # <<>> => saveFilePath[3] = ClaimedMedium(probe[1].type)

C10_Witness ==
  /\ fn = "temperature" /\ probe # <<>> /\ saveFilePath # <<>>
  /\ probe[1].type = "PlanarElectronTemperatureCutsProbe" /\ medium = "elec"

====
